---------------------------- MODULE Spec2Model ----------------------------
(***************************************************************************)
(* A model of the lead-qualifying chat pipeline of the AI sales assistant: *)
(* src/chatbot.py (retrieval, extraction, scoring, lead upsert, chat),     *)
(* src/send_email.py (notification), src/api/index.py (the HTTP handler    *)
(* and its in-memory session store) and the leads table of                 *)
(* src/RAG/init_db.py.                                                     *)
(*                                                                         *)
(* Python values are modelled as follows.  A dict is a function from key   *)
(* strings to values; every attribute value is a string, with None the     *)
(* Python None and "" a falsy non-None value.  A message's content is a    *)
(* sequence of tokens; the two regular expressions of extract_lead_info    *)
(* are modelled by the tokens they match.                                  *)
(***************************************************************************)
EXTENDS Integers, Sequences, FiniteSets, TLC

VARIABLES
    sessions,      \* api/index.py: the process-wide dict session_id -> history
    leads,         \* the rows of table leads
    lead_id_seq,   \* the SERIAL sequence behind leads.id
    outbox,        \* the calls of send_lead_notification, in order
    company_faq,   \* the rows of table company_faq (read-only to the core)
    now,           \* the clock: the number of requests handled so far
    last,          \* what the last handled request did
    audit,         \* per session: qualifying turns so far, and failed saves
    pending,       \* the requests that arrived and wait for the event loop
    call           \* a direct call of one pure function: arguments and result

vars ==
    <<sessions, leads, lead_id_seq, outbox, company_faq, now, last, audit,
      pending, call>>

-----------------------------------------------------------------------------
(* Values *)

None == "<None>"

\* Python truthiness of an attribute value: None and "" are falsy.
Truthy(v) == v # None /\ v # ""

\* dict.get(k): the value under k, None when k is not a key.
Get(d, k) == IF k \in DOMAIN d THEN d[k] ELSE None

\* dict.update(e): e's keys are added, e's values replace d's.
DictUpdate(d, e) ==
    [k \in (DOMAIN d) \cup (DOMAIN e) |-> IF k \in DOMAIN e THEN e[k] ELSE d[k]]

\* {k: v for k, v in d.items() if v}
TruthyItems(d) == [k \in {x \in DOMAIN d : Truthy(d[x])} |-> d[k]]

\* The keys of lead_data as extract_lead_info creates it, the columns of leads.
LeadFields ==
    {"name", "email", "phone_number", "vehicle_type", "make_model_preference",
     "new_or_used", "budget_range", "trade_in", "financing_needed", "priorities"}

-----------------------------------------------------------------------------
(* calculate_qualification_score *)

W_name == 10
W_email == 20
W_phone_number == 20
W_vehicle_type == 10
W_make_model_preference == 10
W_new_or_used == 5
W_budget_range == 15
W_financing_needed == 5
W_trade_in == 5

Pts(lead_data, k, w) == IF Truthy(Get(lead_data, k)) THEN w ELSE 0

\* The budget weight mistyped as 25: the weights then sum to 110.
calculate_qualification_score_heavy(lead_data) ==
      Pts(lead_data, "name", W_name)
    + Pts(lead_data, "email", W_email)
    + Pts(lead_data, "phone_number", W_phone_number)
    + Pts(lead_data, "vehicle_type", W_vehicle_type)
    + Pts(lead_data, "make_model_preference", W_make_model_preference)
    + Pts(lead_data, "new_or_used", W_new_or_used)
    + Pts(lead_data, "budget_range", W_budget_range + 10)
    + Pts(lead_data, "financing_needed", W_financing_needed)
    + Pts(lead_data, "trade_in", W_trade_in)

\* A trade-in counted against the lead: `score -= 5`.
calculate_qualification_score_penalty(lead_data) ==
      Pts(lead_data, "name", W_name)
    + Pts(lead_data, "email", W_email)
    + Pts(lead_data, "phone_number", W_phone_number)
    + Pts(lead_data, "vehicle_type", W_vehicle_type)
    + Pts(lead_data, "make_model_preference", W_make_model_preference)
    + Pts(lead_data, "new_or_used", W_new_or_used)
    + Pts(lead_data, "budget_range", W_budget_range)
    + Pts(lead_data, "financing_needed", W_financing_needed)
    - Pts(lead_data, "trade_in", W_trade_in)

calculate_qualification_score(lead_data) ==
      Pts(lead_data, "name", W_name)
    + Pts(lead_data, "email", W_email)
    + Pts(lead_data, "phone_number", W_phone_number)
    + Pts(lead_data, "vehicle_type", W_vehicle_type)
    + Pts(lead_data, "make_model_preference", W_make_model_preference)
    + Pts(lead_data, "new_or_used", W_new_or_used)
    + Pts(lead_data, "budget_range", W_budget_range)
    + Pts(lead_data, "financing_needed", W_financing_needed)
    + Pts(lead_data, "trade_in", W_trade_in)

-----------------------------------------------------------------------------
(* extract_lead_info *)

\* The tokens the email pattern and the phone pattern of extract_lead_info
\* match; every other token matches neither.
EmailTokens == {"a@b.com", "c@d.org"}
PhoneTokens == {"555-123-4567"}

\* re.search(pattern, content): the leftmost match in content, None without one.
RECURSIVE re_search(_, _)
re_search(Matching, content) ==
    IF content = <<>> THEN None
    ELSE IF Head(content) \in Matching THEN Head(content)
    ELSE re_search(Matching, Tail(content))

\* The all-None record extract_lead_info starts from.
EmptyLead == [k \in LeadFields |-> None]

\* The loop without `if msg["role"] == "user"`: every message is scanned.
RECURSIVE DeterministicPass_any_role(_, _)
DeterministicPass_any_role(conversation_history, lead_data) ==
    IF conversation_history = <<>> THEN lead_data
    ELSE
        LET msg == Head(conversation_history)
            email_match == re_search(EmailTokens, msg.content)
            phone_match == re_search(PhoneTokens, msg.content)
            d1 == IF email_match # None
                  THEN [lead_data EXCEPT !["email"] = email_match]
                  ELSE lead_data
            d2 == IF phone_match # None
                  THEN [d1 EXCEPT !["phone_number"] = phone_match]
                  ELSE d1
        IN DeterministicPass_any_role(Tail(conversation_history), d2)

\* The loop over conversation_history: each user message's match, when there
\* is one, is assigned over what earlier messages set.
RECURSIVE DeterministicPass(_, _)
DeterministicPass(conversation_history, lead_data) ==
    IF conversation_history = <<>> THEN lead_data
    ELSE
        LET msg == Head(conversation_history)
            email_match == re_search(EmailTokens, msg.content)
            phone_match == re_search(PhoneTokens, msg.content)
            d1 == IF msg.role = "user" /\ email_match # None
                  THEN [lead_data EXCEPT !["email"] = email_match]
                  ELSE lead_data
            d2 == IF msg.role = "user" /\ phone_match # None
                  THEN [d1 EXCEPT !["phone_number"] = phone_match]
                  ELSE d1
        IN DeterministicPass(Tail(conversation_history), d2)

\* What the extraction completion call does.  kind "api_error": the call
\* raises; "malformed": json.loads raises on the content; "not_mapping":
\* json.loads returns a value without .items() (a list, a string, null);
\* "mapping": json.loads returns the dict `value`.
LlmRaises(llm) == llm.kind \in {"api_error", "malformed", "not_mapping"}

\* The try block narrowed to `except json.JSONDecodeError`: an API failure or a
\* parsed non-mapping escapes.
extract_lead_info_narrow(conversation_history, llm) ==
    LET det == DeterministicPass(conversation_history, EmptyLead)
    IN  IF llm.kind \in {"api_error", "not_mapping"}
        THEN [raised |-> TRUE, lead_data |-> det]
        ELSE IF llm.kind = "malformed"
        THEN [raised |-> FALSE, lead_data |-> det]
        ELSE [raised |-> FALSE,
              lead_data |-> DictUpdate(det, TruthyItems(llm.value))]

\* The result of extract_lead_info: whether it raised, and the lead_data it
\* returns.  The bare except swallows every failure of the try block, which
\* leaves lead_data as the loop left it; otherwise the model's truthy items
\* are written over lead_data by dict.update.
extract_lead_info(conversation_history, llm) ==
    LET det == DeterministicPass(conversation_history, EmptyLead)
    IN  IF LlmRaises(llm)
        THEN [raised |-> FALSE, lead_data |-> det]
        ELSE [raised |-> FALSE,
              lead_data |-> DictUpdate(det, TruthyItems(llm.value))]

-----------------------------------------------------------------------------
(* get_relevant_context *)

\* The defaults of get_relevant_context's parameters; similarities are in
\* hundredths.
DefaultThreshold == 45
DefaultLimit == 3

Abs(x) == IF x < 0 THEN -x ELSE x

\* embedding <=> query: the cosine distance, in hundredths.  An embedding is
\* modelled by a direction 0..4, the distance growing with the angle between.
Distance(a, b) == 50 * Abs(a - b)

\* The sequences ORDER BY embedding <=> query ASC LIMIT limit may return: the
\* rows in order of distance, a tie broken either way.
Ranked(rows, query_embedding, limit) ==
    LET n == IF Cardinality(rows) < limit THEN Cardinality(rows) ELSE limit
    IN  {r \in [1..n -> rows] :
            /\ \A i, j \in 1..n : i < j =>
                  /\ r[i] # r[j]
                  /\ Distance(r[i].embedding, query_embedding)
                        <= Distance(r[j].embedding, query_embedding)
            /\ \A d \in rows : (\A i \in 1..n : r[i] # d) =>
                  \A i \in 1..n : Distance(r[i].embedding, query_embedding)
                                    <= Distance(d.embedding, query_embedding)}

\* A row as the SELECT returns it.
ResultRow(d, query_embedding) ==
    [id |-> d.id, title |-> d.title,
     similarity |-> 100 - Distance(d.embedding, query_embedding)]

\* get_relevant_context without its try/except: a failing call raises.
get_relevant_context_unguarded(embed, db_ok, rows, threshold, limit) ==
    IF ~embed.ok \/ ~db_ok
    THEN {[raised |-> TRUE, results |-> <<>>]}
    ELSE {[raised |-> FALSE,
           results |-> [i \in DOMAIN r |-> ResultRow(r[i], embed.vector)]] :
            r \in Ranked(rows, embed.vector, limit)}

\* The query with `WHERE similarity >= threshold`: the threshold as a floor.
get_relevant_context_floor(embed, db_ok, rows, threshold, limit) ==
    IF ~embed.ok \/ ~db_ok
    THEN {[raised |-> FALSE, results |-> <<>>]}
    ELSE {[raised |-> FALSE,
           results |-> [i \in DOMAIN r |-> ResultRow(r[i], embed.vector)]] :
            r \in Ranked({d \in rows :
                            100 - Distance(d.embedding, embed.vector) >= threshold},
                         embed.vector, limit)}

\* The results get_relevant_context may return.  embed: what the embeddings
\* call does (ok with a vector, or raises); db_ok: whether connecting and
\* querying succeed.  threshold is not used by the query.
get_relevant_context(embed, db_ok, rows, threshold, limit) ==
    IF ~embed.ok \/ ~db_ok
    THEN {[raised |-> FALSE, results |-> <<>>]}
    ELSE {[raised |-> FALSE,
           results |-> [i \in DOMAIN r |-> ResultRow(r[i], embed.vector)]] :
            r \in Ranked(rows, embed.vector, limit)}

FallbackContext == <<"No specific information found.">>

\* chat's context: the retrieved sources joined, or the fallback string.
Context(context_docs) ==
    IF context_docs # <<>>
    THEN [i \in DOMAIN context_docs |-> context_docs[i].title]
    ELSE FallbackContext

-----------------------------------------------------------------------------
(* save_lead and the leads table *)

\* The row INSERT ... VALUES proposes.
LeadRow(id, session_id, lead_data, score, conversation_history, created, updated) ==
    [id |-> id, session_id |-> session_id,
     name |-> Get(lead_data, "name"),
     email |-> Get(lead_data, "email"),
     phone_number |-> Get(lead_data, "phone_number"),
     vehicle_type |-> Get(lead_data, "vehicle_type"),
     make_model_preference |-> Get(lead_data, "make_model_preference"),
     new_or_used |-> Get(lead_data, "new_or_used"),
     budget_range |-> Get(lead_data, "budget_range"),
     trade_in |-> Get(lead_data, "trade_in"),
     financing_needed |-> Get(lead_data, "financing_needed"),
     priorities |-> Get(lead_data, "priorities"),
     qualification_score |-> score,
     conversation_history |-> conversation_history,
     created_at |-> created, updated_at |-> updated]

NoLead == [some |-> FALSE, inserted |-> FALSE, row |-> <<>>]

\* INSERT without ON CONFLICT into a table without the UNIQUE constraint:
\* every call adds a row.
save_lead_plain_insert(lead_data, conversation_history, session_id, db_ok, rows, seq, t) ==
    IF ~db_ok \/ session_id = None
    THEN [raised |-> FALSE, result |-> NoLead, leads |-> rows, seq |-> seq]
    ELSE LET row == LeadRow(seq + 1, session_id, lead_data,
                            calculate_qualification_score(lead_data),
                            conversation_history, t, t)
         IN  [raised |-> FALSE,
              result |-> [some |-> TRUE, inserted |-> TRUE, row |-> row],
              leads |-> rows \cup {row}, seq |-> seq + 1]

\* save_lead without its try/except: a store failure raises.
save_lead_unguarded(lead_data, conversation_history, session_id, db_ok, rows, seq, t) ==
    IF ~db_ok \/ session_id = None
    THEN [raised |-> TRUE, result |-> NoLead, leads |-> rows, seq |-> seq]
    ELSE LET score == calculate_qualification_score(lead_data)
             old == {r \in rows : r.session_id = session_id}
             id == IF old = {} THEN seq + 1 ELSE (CHOOSE r \in old : TRUE).id
             created == IF old = {} THEN t ELSE (CHOOSE r \in old : TRUE).created_at
             row == LeadRow(id, session_id, lead_data, score,
                            conversation_history, created, t)
         IN  [raised |-> FALSE,
              result |-> [some |-> TRUE, inserted |-> old = {}, row |-> row],
              leads |-> (rows \ old) \cup {row}, seq |-> seq + 1]

\* The update keeping what is stored where the new value is null:
\* SET name = COALESCE(EXCLUDED.name, leads.name), and so on.
save_lead_coalesce(lead_data, conversation_history, session_id, db_ok, rows, seq, t) ==
    IF ~db_ok \/ session_id = None
    THEN [raised |-> FALSE, result |-> NoLead, leads |-> rows, seq |-> seq]
    ELSE LET score == calculate_qualification_score(lead_data)
             old == {r \in rows : r.session_id = session_id}
         IN  IF old = {}
             THEN LET row == LeadRow(seq + 1, session_id, lead_data, score,
                                     conversation_history, t, t)
                  IN  [raised |-> FALSE,
                       result |-> [some |-> TRUE, inserted |-> TRUE, row |-> row],
                       leads |-> rows \cup {row}, seq |-> seq + 1]
             ELSE LET o == CHOOSE r \in old : TRUE
                      kept == [k \in LeadFields |->
                                 IF Get(lead_data, k) # None
                                 THEN Get(lead_data, k) ELSE o[k]]
                      row == LeadRow(o.id, session_id, kept, score,
                                     conversation_history, o.created_at, t)
                  IN  [raised |-> FALSE,
                       result |-> [some |-> TRUE, inserted |-> FALSE, row |-> row],
                       leads |-> (rows \ old) \cup {row}, seq |-> seq + 1]

\* The upsert keyed by the contact instead of the session: ON CONFLICT
\* (email) on a UNIQUE email column; the row in conflict keeps its session_id.
save_lead_conflict_on_email(lead_data, conversation_history, session_id, db_ok, rows, seq, t) ==
    IF ~db_ok \/ session_id = None
    THEN [raised |-> FALSE, result |-> NoLead, leads |-> rows, seq |-> seq]
    ELSE LET score == calculate_qualification_score(lead_data)
             old == {r \in rows : r.email = Get(lead_data, "email")}
         IN  IF old = {}
             THEN LET row == LeadRow(seq + 1, session_id, lead_data, score,
                                     conversation_history, t, t)
                  IN  [raised |-> FALSE,
                       result |-> [some |-> TRUE, inserted |-> TRUE, row |-> row],
                       leads |-> rows \cup {row}, seq |-> seq + 1]
             ELSE LET o == CHOOSE r \in old : TRUE
                      row == LeadRow(o.id, o.session_id, lead_data, score,
                                     conversation_history, o.created_at, t)
                  IN  [raised |-> FALSE,
                       result |-> [some |-> TRUE, inserted |-> FALSE, row |-> row],
                       leads |-> (rows \ old) \cup {row}, seq |-> seq + 1]

\* save_lead: the upsert.  db_ok: whether connecting, executing and committing
\* succeed; a failure (also the NOT NULL violation of a None session_id) is
\* caught and None returned, with nothing written.  The SERIAL default is
\* evaluated for the proposed row before the conflict is detected, so the
\* sequence advances on an update too.  RETURNING (xmax = 0) is true of a
\* freshly inserted row only.
save_lead(lead_data, conversation_history, session_id, db_ok, rows, seq, t) ==
    IF ~db_ok \/ session_id = None
    THEN [raised |-> FALSE, result |-> NoLead, leads |-> rows, seq |-> seq]
    ELSE LET score == calculate_qualification_score(lead_data)
             old == {r \in rows : r.session_id = session_id}
         IN  IF old = {}
             THEN LET row == LeadRow(seq + 1, session_id, lead_data, score,
                                     conversation_history, t, t)
                  IN  [raised |-> FALSE,
                       result |-> [some |-> TRUE, inserted |-> TRUE, row |-> row],
                       leads |-> rows \cup {row}, seq |-> seq + 1]
             ELSE LET o == CHOOSE r \in old : TRUE
                      row == LeadRow(o.id, session_id, lead_data, score,
                                     conversation_history, o.created_at, t)
                  IN  [raised |-> FALSE,
                       result |-> [some |-> TRUE, inserted |-> FALSE, row |-> row],
                       leads |-> (rows \ old) \cup {row}, seq |-> seq + 1]

-----------------------------------------------------------------------------
(* send_lead_notification *)

\* What the Mailgun side does: "no_config" (MAILGUN_DOMAIN or MAILGUN_API_KEY
\* unset), "200", "non_200" (any other status), "exception" (requests.post
\* raises).
MailOutcomes == {"no_config", "200", "non_200", "exception"}

\* requests.post outside the try block: a network exception escapes.
send_lead_notification_unguarded(lead_data, mail) ==
    [raised |-> mail = "exception", posted |-> mail # "no_config",
     sent |-> mail = "200"]

\* send_lead_notification: returns None in every case; the email went out
\* only on a 200.
send_lead_notification(lead_data, mail) ==
    [raised |-> FALSE, posted |-> mail # "no_config", sent |-> mail = "200"]

-----------------------------------------------------------------------------
(* Inputs of a request *)

MaxTurns == 2

SessionIds == {"s1", "s2"}

UserMessages ==
    {<<"a@b.com">>, <<"hi", "555-123-4567">>, <<"c@d.org", "555-123-4567">>}

Replies == {<<"reply">>}

\* The embeddings call: raises, or returns the query's vector.
EmbedOutcomes == {[ok |-> FALSE, vector |-> 0], [ok |-> TRUE, vector |-> 1]}

\* What retrieval meets: the embeddings call's outcome and whether the store
\* answers; the store is not reached when the embeddings call raises.
RetrievalEnvs ==
    {[embed |-> e, db_ok |-> ok,
      kind |-> IF ~e.ok THEN "embed_error" ELSE IF ~ok THEN "db_error" ELSE "ok"] :
        e \in EmbedOutcomes, ok \in BOOLEAN}
        \ {[embed |-> e, db_ok |-> TRUE, kind |-> "embed_error"] :
              e \in EmbedOutcomes}

\* The knowledge base a run starts with: empty, or two records.
Corpora ==
    {{},
     {[id |-> 1, title |-> "Financing", embedding |-> 1],
      [id |-> 2, title |-> "Inventory", embedding |-> 3]}}

\* The extraction call's answers in a request: two failures and two mappings.
\* M40 is worth 40 points, M35e 55 points with the email it supplies itself.
M0 == [k \in {} |-> None]
M40 == [k \in {"name", "vehicle_type", "budget_range", "new_or_used",
               "priorities", "trade_in"} |->
           CASE k = "name" -> "Ann"
             [] k = "vehicle_type" -> "SUV"
             [] k = "budget_range" -> "$50k+"
             [] k = "new_or_used" -> "new"
             [] k = "priorities" -> None
             [] k = "trade_in" -> ""]
M35e == [k \in {"name", "vehicle_type", "budget_range", "email"} |->
           CASE k = "name" -> "Ann"
             [] k = "vehicle_type" -> "SUV"
             [] k = "budget_range" -> "$50k+"
             [] k = "email" -> "x@y.com"]
LlmOutcomes ==
    {[kind |-> k, value |-> M0] : k \in {"api_error", "not_mapping"}}
        \cup {[kind |-> "mapping", value |-> m] : m \in {M40, M35e}}

-----------------------------------------------------------------------------
(* chat *)

QualifyThreshold == 60

\* The gate without its email conjunct.
IsQualified_score_only(score, lead_data) == score >= QualifyThreshold

\* `if score >= 60 and lead_data.get("email")`
IsQualified(score, lead_data) ==
    score >= QualifyThreshold /\ Truthy(Get(lead_data, "email"))

\* The email sent after every successful save.
ShouldNotify_always(saved_lead) == TRUE

\* `if saved_lead.get('inserted', False)`
ShouldNotify(saved_lead) == saved_lead.inserted

\* What a call of chat did, before anything is known.
Trace0 ==
    [retrieval |-> "none", context |-> <<>>, extraction |-> "none",
     lead_data |-> EmptyLead, score |-> 0, completion |-> "none",
     qualified |-> FALSE, save |-> "none", inserted |-> FALSE,
     saved |-> NoLead, mail |-> "none"]

\* An outcome of chat: raised, or returned (message, history); arg_history is
\* the caller's list object after the call, which chat appends to in place;
\* leads, seq and mails are the call's effects outside the process.
Outcome(raised, message, history, arg_history, rows, seq, mails, trace) ==
    [raised |-> raised, message |-> message, history |-> history,
     arg_history |-> arg_history, leads |-> rows, seq |-> seq,
     mails |-> mails, trace |-> trace]

\* chat is modelled by the set of outcomes its external calls allow.  It is
\* written in stages, each stage an operator on the values computed so far:
\* chat (lines 237-248), ChatExtract (250-252), ChatCompose (283-304),
\* ChatGate (309-313), ChatSaved (314-321).

\* Lines 314-321: after save_lead returned sv.
ChatSaved(message, history, sv, trace) ==
    IF sv.raised \/ ~(sv.result.some /\ ShouldNotify(sv.result))
    THEN {Outcome(sv.raised, message, history, history, sv.leads, sv.seq, <<>>, trace)}
    ELSE {LET n == send_lead_notification(sv.result.row, mail)
          IN  Outcome(n.raised, message, history, history, sv.leads, sv.seq,
                      <<[session_id |-> sv.result.row.session_id,
                         id |-> sv.result.row.id, outcome |-> mail]>>,
                      [trace EXCEPT !.mail = mail]) :
            mail \in MailOutcomes}

\* Lines 309-313: the gate and the call of save_lead, the store taking the
\* upsert or not.
ChatGate(message, history, session_id, lead_data, score, trace) ==
    IF ~IsQualified(score, lead_data)
    THEN {Outcome(FALSE, message, history, history, leads, lead_id_seq, <<>>, trace)}
    ELSE UNION {
            UNION {ChatSaved(message, history, sv,
                             [trace EXCEPT !.qualified = TRUE,
                                           !.save = IF db_ok THEN "ok" ELSE "error",
                                           !.inserted = sv.result.inserted,
                                           !.saved = sv.result])
                   : sv \in {save_lead(lead_data, history, session_id, db_ok,
                                       leads, lead_id_seq, now + 1)}}
            : db_ok \in BOOLEAN}

\* The user turn appended before the completion call: a failing call leaves
\* it in the caller's list.
ChatCompose_append_first(user_message, conversation_history, session_id, lead_data, trace) ==
    {Outcome(TRUE, <<>>, <<>>,
             Append(conversation_history,
                    [role |-> "user", content |-> user_message,
                     timestamp |-> now + 1]),
             leads, lead_id_seq, <<>>,
             [trace EXCEPT !.completion = "error"])}
    \cup UNION {
        UNION {ChatGate(assistant_message, history, session_id, lead_data, score,
                        [trace EXCEPT !.completion = "ok", !.score = score])
               : history \in {conversation_history
                                \o <<[role |-> "user", content |-> user_message,
                                      timestamp |-> now + 1],
                                     [role |-> "assistant",
                                      content |-> assistant_message,
                                      timestamp |-> now + 1]>>},
                 score \in {calculate_qualification_score(lead_data)}}
        : assistant_message \in Replies}

\* The history rebuilt from the new turns alone, the prior turns dropped.
ChatCompose_fresh_history(user_message, conversation_history, session_id, lead_data, trace) ==
    {Outcome(TRUE, <<>>, <<>>, conversation_history, leads, lead_id_seq, <<>>,
             [trace EXCEPT !.completion = "error"])}
    \cup UNION {
        UNION {ChatGate(assistant_message, history, session_id, lead_data, score,
                        [trace EXCEPT !.completion = "ok", !.score = score])
               : history \in {<<[role |-> "user", content |-> user_message,
                                 timestamp |-> now + 1],
                                [role |-> "assistant",
                                 content |-> assistant_message,
                                 timestamp |-> now + 1]>>},
                 score \in {calculate_qualification_score(lead_data)}}
        : assistant_message \in Replies}

\* Lines 283-304: the completion call, which raises or returns the reply,
\* and the two appends to the caller's list.
ChatCompose(user_message, conversation_history, session_id, lead_data, trace) ==
    {Outcome(TRUE, <<>>, <<>>, conversation_history, leads, lead_id_seq, <<>>,
             [trace EXCEPT !.completion = "error"])}
    \cup UNION {
        UNION {ChatGate(assistant_message, history, session_id, lead_data, score,
                        [trace EXCEPT !.completion = "ok", !.score = score])
               : history \in {conversation_history
                                \o <<[role |-> "user", content |-> user_message,
                                      timestamp |-> now + 1],
                                     [role |-> "assistant",
                                      content |-> assistant_message,
                                      timestamp |-> now + 1]>>},
                 score \in {calculate_qualification_score(lead_data)}}
        : assistant_message \in Replies}

\* Lines 250-252: extraction over the history and the new user message.
ChatExtract(user_message, conversation_history, session_id, trace) ==
    UNION {
        UNION {IF ex.raised
               THEN {Outcome(TRUE, <<>>, <<>>, conversation_history, leads,
                             lead_id_seq, <<>>,
                             [trace EXCEPT !.extraction = llm.kind])}
               ELSE ChatCompose(user_message, conversation_history, session_id,
                                ex.lead_data,
                                [trace EXCEPT !.extraction = llm.kind,
                                              !.lead_data = ex.lead_data])
               : ex \in {extract_lead_info(
                            Append(conversation_history,
                                   [role |-> "user", content |-> user_message]),
                            llm)}}
        : llm \in LlmOutcomes}

\* chat(user_message, conversation_history, session_id): every outcome the
\* external calls allow.
chat(user_message, conversation_history, session_id) ==
    UNION {
        UNION {IF context_docs.raised
               THEN {Outcome(TRUE, <<>>, <<>>, conversation_history, leads,
                             lead_id_seq, <<>>,
                             [Trace0 EXCEPT !.retrieval = env.kind])}
               ELSE ChatExtract(user_message, conversation_history, session_id,
                                [Trace0 EXCEPT
                                    !.retrieval = env.kind,
                                    !.context = Context(context_docs.results)])
               : context_docs \in get_relevant_context(env.embed, env.db_ok,
                                     company_faq, DefaultThreshold, DefaultLimit)}
        : env \in RetrievalEnvs}

-----------------------------------------------------------------------------
(* api/index.py: chat_endpoint *)

NoCall == [fn |-> "none"]

Init ==
    /\ sessions = [s \in {} |-> <<>>]
    /\ leads = {}
    /\ lead_id_seq = 0
    /\ outbox = <<>>
    /\ company_faq \in Corpora
    /\ now = 0
    /\ last = [session_id |-> None,
               message |-> <<>>, status |-> 0, reply |-> <<>>, trace |-> Trace0]
    /\ audit = [s \in SessionIds |-> [qualified |-> 0, save_failed |-> 0]]
    /\ pending = <<>>
    /\ call = NoCall

\* The handler on a request (message, session_id).  session_id is the
\* request's own or, for a request without one, the uuid4 the handler
\* draws, which is an id not in sessions.
Handle(session_id, message) ==
    LET known == IF session_id \in DOMAIN sessions
                 THEN sessions
                 ELSE [s \in DOMAIN sessions \cup {session_id} |->
                          IF s = session_id THEN <<>> ELSE sessions[s]]
    IN  \E o \in chat(message, known[session_id], session_id) :
            /\ sessions' = [known EXCEPT ![session_id] =
                              IF o.raised THEN o.arg_history ELSE o.history]
            /\ leads' = o.leads
            /\ lead_id_seq' = o.seq
            /\ outbox' = outbox \o o.mails
            /\ now' = now + 1
            /\ last' = [session_id |-> session_id,
                        message |-> message,
                        status |-> IF o.raised THEN 500 ELSE 200,
                        reply |-> o.message, trace |-> o.trace]
            /\ audit' = [audit EXCEPT
                  ![session_id].qualified =
                      @ + (IF o.trace.qualified THEN 1 ELSE 0),
                  ![session_id].save_failed =
                      @ + (IF o.trace.save = "error" THEN 1 ELSE 0)]
            /\ UNCHANGED <<company_faq, call>>

\* Session ids are interchangeable, so the ids come into use in one order:
\* "s2" is seen only after "s1".
Usable(session_id) == session_id = "s1" \/ "s1" \in DOMAIN sessions

chat_endpoint ==
    /\ now < MaxTurns
    /\ call = NoCall
    /\ \E message \in UserMessages, session_id \in SessionIds :
          Usable(session_id) /\ Handle(session_id, message)
    /\ UNCHANGED pending

Next == chat_endpoint

Spec == Init /\ [][Next]_vars

-----------------------------------------------------------------------------
(* Requests in flight *)

\* chat_endpoint is a coroutine (`async def`) that calls chat without an
\* await: the event loop runs one handler at a time, from its entry to its
\* return or raise, and starts the waiting handlers in the order they became
\* ready.  Arrive is a request reaching the handler's queue, Serve the event
\* loop running the handler on a waiting request; a waiting request carries
\* the clock of its arrival.

\* A handler run outside the event loop (`def`, on the thread pool): any
\* waiting request may be the next to go through.
Runnable_any(queue) == DOMAIN queue

\* The positions of the queue the event loop may run next: the oldest.
Runnable(queue) == IF queue = <<>> THEN {} ELSE {1}

\* The messages of the requests that queue up.
ArrivingMessages == {<<"a@b.com">>, <<"c@d.org", "555-123-4567">>}

Arrive ==
    /\ call = NoCall
    /\ now + Len(pending) < MaxTurns
    /\ \E message \in ArrivingMessages, session_id \in SessionIds :
          /\ \/ session_id = "s1"
             \/ "s1" \in DOMAIN sessions
             \/ \E i \in DOMAIN pending : pending[i].session_id = "s1"
          /\ pending' = Append(pending,
                            [session_id |-> session_id, message |-> message,
                             arrived_at |-> now])
    /\ UNCHANGED <<sessions, leads, lead_id_seq, outbox, company_faq, now,
                   last, audit, call>>

Serve ==
    /\ call = NoCall
    /\ \E i \in Runnable(pending) :
          /\ Handle(pending[i].session_id, pending[i].message)
          /\ pending' = [j \in 1..(Len(pending) - 1) |->
                            IF j < i THEN pending[j] ELSE pending[j + 1]]

ArrivalNext == Arrive \/ Serve

\* The process with its knowledge base loaded and no request yet.
ArrivalInit == Init /\ company_faq # {}

ArrivalSpec == ArrivalInit /\ [][ArrivalNext]_vars

-----------------------------------------------------------------------------
(* Direct calls of the pure functions, on inputs drawn from bounded sets *)

\* The process before any request.
Quiet ==
    /\ sessions = [s \in {} |-> <<>>]
    /\ leads = {}
    /\ lead_id_seq = 0
    /\ outbox = <<>>
    /\ company_faq = {}
    /\ now = 0
    /\ last = [session_id |-> None,
               message |-> <<>>, status |-> 0, reply |-> <<>>, trace |-> Trace0]
    /\ audit = [s \in SessionIds |-> [qualified |-> 0, save_failed |-> 0]]
    /\ pending = <<>>

main_vars ==
    <<sessions, leads, lead_id_seq, outbox, company_faq, now, last, audit,
      pending>>

\* Every lead record over the ten fields, each None, falsy or set.
ScoreInputs == [LeadFields -> {None, "", "v"}]

ScoreInit ==
    /\ Quiet
    /\ call \in {[fn |-> "calculate_qualification_score", lead_data |-> r,
                  done |-> FALSE, result |-> 0] : r \in ScoreInputs}

ScoreCall ==
    /\ call.fn = "calculate_qualification_score"
    /\ ~call.done
    /\ call' = [call EXCEPT !.done = TRUE,
                  !.result = calculate_qualification_score(call.lead_data)]
    /\ UNCHANGED main_vars

ScoreNext == ScoreCall

ScoreSpec == ScoreInit /\ [][ScoreNext]_vars

\* Histories of at most MaxHistory turns of either role, and the extraction
\* call's answers over three keys (one of them no field of lead_data), each
\* None, falsy or set.
MaxHistory == 2

Contents ==
    {<<"hi">>, <<"a@b.com">>, <<"c@d.org">>, <<"555-123-4567">>,
     <<"a@b.com", "c@d.org">>}

Turns == [role : {"user", "assistant"}, content : Contents]

Histories == UNION {[1..n -> Turns] : n \in 0..MaxHistory}

LlmValue == "from-model"

ExtractAnswers ==
    {[kind |-> k, value |-> M0] : k \in {"api_error", "malformed", "not_mapping"}}
        \cup {[kind |-> "mapping", value |-> m] :
                m \in UNION {[K -> {None, "", LlmValue}] :
                                K \in SUBSET {"email", "name", "company"}}}

ExtractInit ==
    /\ Quiet
    /\ call \in {[fn |-> "extract_lead_info", conversation_history |-> h,
                  llm |-> l, done |-> FALSE,
                  result |-> [raised |-> FALSE, lead_data |-> EmptyLead]] :
                    h \in Histories, l \in ExtractAnswers}

ExtractCall ==
    /\ call.fn = "extract_lead_info"
    /\ ~call.done
    /\ call' = [call EXCEPT !.done = TRUE,
                  !.result = extract_lead_info(call.conversation_history, call.llm)]
    /\ UNCHANGED main_vars

ExtractNext == ExtractCall

ExtractSpec == ExtractInit /\ [][ExtractNext]_vars

\* get_relevant_context on every corpus drawn from four records (two of them
\* at the same distance from some queries), every query direction or a
\* failing embeddings call, a store that answers or not, three thresholds
\* and every limit up to MaxLimit.
MaxLimit == 3

DocPool ==
    {[id |-> 1, title |-> "Financing", embedding |-> 1],
     [id |-> 2, title |-> "Inventory", embedding |-> 3],
     [id |-> 3, title |-> "Service", embedding |-> 3],
     [id |-> 4, title |-> "Hours", embedding |-> 4]}

QueryOutcomes ==
    {[ok |-> FALSE, vector |-> 0]} \cup {[ok |-> TRUE, vector |-> v] : v \in 0..4}

Thresholds == {0, DefaultThreshold, 90}

RetrieveInit ==
    /\ Quiet
    /\ call \in {[fn |-> "get_relevant_context", embed |-> e, db_ok |-> ok,
                  rows |-> c, threshold |-> th, limit |-> n,
                  done |-> FALSE, result |-> [raised |-> FALSE, results |-> <<>>]] :
                    e \in QueryOutcomes, ok \in BOOLEAN, c \in SUBSET DocPool,
                    th \in Thresholds, n \in 0..MaxLimit}

RetrieveCall ==
    /\ call.fn = "get_relevant_context"
    /\ ~call.done
    /\ \E r \in get_relevant_context(call.embed, call.db_ok, call.rows,
                                     call.threshold, call.limit) :
          call' = [call EXCEPT !.done = TRUE, !.result = r]
    /\ UNCHANGED main_vars

RetrieveNext == RetrieveCall

RetrieveSpec == RetrieveInit /\ [][RetrieveNext]_vars

\* chat called directly by a caller that holds the prior history in a list
\* of its own: on an empty history or on one earlier exchange, with or
\* without a session id.  The call's effects on the store and the mailer
\* are part of the step.
PriorHistories ==
    {<<>>,
     <<[role |-> "user", content |-> <<"c@d.org", "555-123-4567">>,
        timestamp |-> 0],
       [role |-> "assistant", content |-> <<"reply">>, timestamp |-> 0]>>}

ChatInit ==
    /\ Quiet
    /\ call \in {[fn |-> "chat", user_message |-> m, conversation_history |-> h,
                  session_id |-> s, done |-> FALSE, result |-> <<>>] :
                    m \in UserMessages, h \in PriorHistories,
                    s \in {"s1", None}}

ChatCall ==
    /\ call.fn = "chat"
    /\ ~call.done
    /\ \E o \in chat(call.user_message, call.conversation_history,
                     call.session_id) :
          /\ call' = [call EXCEPT !.done = TRUE, !.result = o]
          /\ leads' = o.leads
          /\ lead_id_seq' = o.seq
          /\ outbox' = outbox \o o.mails
          /\ now' = now + 1
    /\ UNCHANGED <<sessions, company_faq, last, audit, pending>>

ChatNext == ChatCall

ChatSpec == ChatInit /\ [][ChatNext]_vars

\* calculate_qualification_score along a growing record: from the all-None
\* record, one None field at a time is given a non-None value (falsy or set)
\* and the record is scored again.  Every record over the ten fields is
\* reached, and every record extending it by non-None values follows it.
KnownValues == {"", "v"}

GrowInit ==
    /\ Quiet
    /\ call = [fn |-> "calculate_qualification_score/grow",
               lead_data |-> EmptyLead,
               result |-> calculate_qualification_score(EmptyLead)]

GrowCall ==
    /\ call.fn = "calculate_qualification_score/grow"
    /\ \E k \in LeadFields, v \in KnownValues :
          /\ call.lead_data[k] = None
          /\ LET r == [call.lead_data EXCEPT ![k] = v]
             IN  call' = [call EXCEPT !.lead_data = r,
                            !.result = calculate_qualification_score(r)]
    /\ UNCHANGED main_vars

GrowNext == GrowCall

GrowSpec == GrowInit /\ [][GrowNext]_vars

-----------------------------------------------------------------------------
(* Properties *)

RowsFor(s) == {r \in leads : r.session_id = s}

MailsFor(s) == Cardinality({i \in DOMAIN outbox : outbox[i].session_id = s})

ExtractionFailures == {"api_error", "malformed", "not_mapping"}

MailFailures == {"no_config", "non_200", "exception"}

\* The step is a request of session s that passed the qualification gate.
QualifyingTurn(s) ==
    /\ now' = now + 1
    /\ last'.session_id = s
    /\ last'.trace.qualified

\* C1: over the turns of a session send_lead_notification is invoked once,
\* on the qualifying turn whose upsert is a fresh insert, and on no later
\* one: a session has one invocation when it has a lead row and none before,
\* and a turn invokes it exactly when its upsert inserted.
C1_NotifyOncePerSession ==
    /\ \A s \in SessionIds :
          MailsFor(s) = (IF RowsFor(s) # {} THEN 1 ELSE 0)
    /\ (last.trace.mail # "none") <=>
          (last.trace.save = "ok" /\ last.trace.inserted)

C1_Witness ==
    \E s \in SessionIds :
        /\ audit[s].qualified = 2
        /\ audit[s].save_failed = 0
        /\ last.session_id = s
        /\ last.trace.save = "ok" /\ ~last.trace.inserted
        /\ MailsFor(s) = 1

\* C2: the leads table never holds two rows of one session_id, and a save
\* after the first leaves the session's row under the id it was created with.
C2_OneLeadPerSession ==
    [][\A s \in SessionIds :
          /\ Cardinality(RowsFor(s)') <= 1
          /\ RowsFor(s) # {} =>
                {r.id : r \in RowsFor(s)'} = {r.id : r \in RowsFor(s)}]_vars

C2_Witness ==
    \E s \in SessionIds :
        /\ audit[s].qualified = 2
        /\ audit[s].save_failed = 0
        /\ Cardinality(RowsFor(s)) = 1
        /\ \E r \in RowsFor(s) : Len(r.conversation_history) = 4

\* C3: a step changes the leads table or notifies only if the request's
\* score is at least 60 and its extracted record has an email; every stored
\* lead has a score of at least 60 and an email.
C3_GatedWrites ==
    [][/\ (leads' # leads \/ outbox' # outbox) =>
            /\ last'.trace.score >= 60
            /\ Get(last'.trace.lead_data, "email") # None
       /\ \A r \in leads' : r.qualification_score >= 60 /\ r.email # None]_vars

C3_Witness ==
    /\ last.trace.save = "ok"
    /\ \E r \in leads : r.qualification_score = 60 /\ r.session_id = last.session_id

\* C4: where the deterministic pass set a field and the model returns a
\* non-null value for it, the merged record keeps the deterministic value; a
\* null model value replaces nothing.
C4_DeterministicWins ==
    (call.fn = "extract_lead_info" /\ call.done) =>
        LET det == DeterministicPass(call.conversation_history, EmptyLead)
            got == call.result.lead_data
        IN  \A X \in LeadFields :
                det[X] # None => got[X] = det[X]

\* C5: when the extraction call fails or answers with something unparseable
\* or not a mapping, extract_lead_info does not raise and returns a record
\* over the ten fields whose only non-null fields are email and phone_number,
\* each set exactly when some user turn holds a match, to a match of a user
\* turn.
UserMatches(conversation_history, Matching) ==
    LET contents == {conversation_history[i].content :
                        i \in {x \in DOMAIN conversation_history :
                                  conversation_history[x].role = "user"}}
    IN  UNION {{c[j] : j \in DOMAIN c} : c \in contents} \cap Matching

C5_ExtractionFallback ==
    (call.fn = "extract_lead_info" /\ call.done
        /\ call.llm.kind \in ExtractionFailures) =>
        LET got == call.result.lead_data
            emails == UserMatches(call.conversation_history, EmailTokens)
            phones == UserMatches(call.conversation_history, PhoneTokens)
        IN  /\ ~call.result.raised
            /\ DOMAIN got = LeadFields
            /\ \A k \in LeadFields \ {"email", "phone_number"} : got[k] = None
            /\ IF emails = {} THEN got["email"] = None ELSE got["email"] \in emails
            /\ IF phones = {} THEN got["phone_number"] = None
               ELSE got["phone_number"] \in phones

C5_Witness ==
    /\ call.fn = "extract_lead_info" /\ call.done
    /\ call.llm.kind = "not_mapping"
    /\ call.result.lead_data["email"] = "c@d.org"
    /\ call.result.lead_data["phone_number"] = "555-123-4567"
    /\ Len(call.conversation_history) = 2

\* C6: a request fails (HTTP 500) exactly when the completion call for the
\* reply fails; otherwise, whatever else failed, it returns a reply and the
\* session's history ends with the request's user turn and that reply.
C6_OnlyCompletionFails ==
    now > 0 =>
        /\ (last.status = 500) <=> (last.trace.completion = "error")
        /\ last.status = 200 =>
              LET h == sessions[last.session_id]
              IN  /\ last.reply \in Replies
                  /\ Len(h) >= 2
                  /\ h[Len(h) - 1].role = "user"
                  /\ h[Len(h) - 1].content = last.message
                  /\ h[Len(h)].role = "assistant"
                  /\ h[Len(h)].content = last.reply

C6_Witness ==
    /\ last.status = 200
    /\ last.trace.retrieval = "db_error"
    /\ last.trace.save = "error"
    /\ Len(sessions[last.session_id]) = 4

\* C7 as claimed: on a qualifying turn whose save succeeds, a lead not saved
\* before is saved, and a notification that was invoked and did not go out is
\* attempted again.
C7_RetriedOnNextTurn ==
    [][\A s \in SessionIds :
          (QualifyingTurn(s) /\ last'.trace.save = "ok") =>
              /\ RowsFor(s)' # {}
              /\ (MailsFor(s) > 0
                    /\ \A i \in DOMAIN outbox :
                          outbox[i].session_id = s => outbox[i].outcome # "200")
                 => Len(outbox') > Len(outbox)]_vars

\* C7 amended: every qualifying turn calls save_lead; when the save succeeds
\* the session has its row, and when it had none before (no earlier save
\* succeeded) the upsert is an insert and the notification is invoked; when
\* it had one, no notification is invoked, whether or not the session's one
\* notification went out.
C7_SaveRetriedNotifyNot ==
    [][\A s \in SessionIds :
          QualifyingTurn(s) =>
              /\ last'.trace.save # "none"
              /\ last'.trace.save = "ok" => RowsFor(s)' # {}
              /\ (last'.trace.save = "ok" /\ RowsFor(s) = {}) =>
                    /\ last'.trace.inserted
                    /\ Len(outbox') = Len(outbox) + 1
                    /\ outbox'[Len(outbox')].session_id = s
              /\ RowsFor(s) # {} => outbox' = outbox]_vars

C7_Witness ==
    \E s \in SessionIds :
        /\ audit[s].qualified = 2
        /\ audit[s].save_failed = 1
        /\ last.session_id = s
        /\ last.trace.save = "ok" /\ last.trace.inserted
        /\ last.trace.mail # "none"

\* C8: a failed notification fails no request and leaves the row that
\* save_lead committed in the request in the table as committed.
C8_NotifyFailureContained ==
    last.trace.mail \in MailFailures =>
        /\ last.status = 200
        /\ last.reply \in Replies
        /\ last.trace.saved.some
        /\ last.trace.saved.row \in leads

C8_Witness ==
    /\ last.trace.mail = "exception"
    /\ last.status = 200
    /\ last.trace.saved.row \in leads

\* C9: when retrieval yields nothing (the embeddings call or the store fails,
\* or the corpus is empty) get_relevant_context does not raise, chat uses
\* the fallback context string, and the request returns a reply unless the
\* completion call fails.
C9_RetrievalDegrades ==
    (now > 0 /\ (last.trace.retrieval # "ok" \/ company_faq = {})) =>
        /\ last.trace.completion # "none"
        /\ last.trace.context = FallbackContext
        /\ last.trace.completion = "ok" =>
              last.status = 200 /\ last.reply \in Replies

C9_Witness ==
    /\ company_faq = {}
    /\ last.trace.retrieval = "ok"
    /\ last.trace.context = FallbackContext
    /\ last.status = 200

\* C10: calculate_qualification_score returns an integer from 0 to 100 on
\* every lead record, and the weights sum to at most 100.
WeightSum ==
    W_name + W_email + W_phone_number + W_vehicle_type
        + W_make_model_preference + W_new_or_used + W_budget_range
        + W_financing_needed + W_trade_in

C10_ScoreInRange ==
    (call.fn = "calculate_qualification_score" /\ call.done) =>
        /\ call.result \in 0..100
        /\ WeightSum <= 100
        /\ call.result <= WeightSum

C10_Witness ==
    /\ call.fn = "calculate_qualification_score"
    /\ call.done
    /\ call.result = 100
    /\ call.lead_data["priorities"] = None

MatchPositions(conversation_history, Matching) ==
    {p \in (DOMAIN conversation_history)
            \X UNION {DOMAIN conversation_history[i].content :
                        i \in DOMAIN conversation_history} :
        /\ conversation_history[p[1]].role = "user"
        /\ p[2] \in DOMAIN conversation_history[p[1]].content
        /\ conversation_history[p[1]].content[p[2]] \in Matching}

TokenAt(conversation_history, p) == conversation_history[p[1]].content[p[2]]

\* The last match of the whole history.
LastMatch(conversation_history, Matching) ==
    LET P == MatchPositions(conversation_history, Matching)
    IN  IF P = {} THEN None
        ELSE TokenAt(conversation_history,
                CHOOSE p \in P : \A q \in P :
                    q[1] < p[1] \/ (q[1] = p[1] /\ q[2] <= p[2]))

\* The leftmost match of the last user turn that holds a match.
LastTurnFirstMatch(conversation_history, Matching) ==
    LET P == MatchPositions(conversation_history, Matching)
    IN  IF P = {} THEN None
        ELSE TokenAt(conversation_history,
                CHOOSE p \in P : \A q \in P :
                    q[1] < p[1] \/ (q[1] = p[1] /\ q[2] >= p[2]))

\* The extraction call's answer sets neither email nor phone_number, so the
\* record holds what the deterministic pass found.
DeterministicOnly ==
    /\ call.fn = "extract_lead_info" /\ call.done
    /\ \/ call.llm.kind \in ExtractionFailures
       \/ /\ ~Truthy(Get(call.llm.value, "email"))
          /\ ~Truthy(Get(call.llm.value, "phone_number"))

\* C12 as claimed: the deterministic pass sets email, and phone_number, to
\* the last match found anywhere in the user turns of the history, and to
\* None when no user turn holds a match.
C12_LastMatchWins ==
    DeterministicOnly =>
        /\ call.result.lead_data["email"]
              = LastMatch(call.conversation_history, EmailTokens)
        /\ call.result.lead_data["phone_number"]
              = LastMatch(call.conversation_history, PhoneTokens)

\* C12 amended: for email and for phone number independently, the last user
\* turn that holds a match wins, with the leftmost match of that turn; a
\* match in an assistant turn sets neither field.
C12_LastUserTurnWins ==
    DeterministicOnly =>
        /\ call.result.lead_data["email"]
              = LastTurnFirstMatch(call.conversation_history, EmailTokens)
        /\ call.result.lead_data["phone_number"]
              = LastTurnFirstMatch(call.conversation_history, PhoneTokens)

C12_Witness ==
    /\ DeterministicOnly
    /\ call.conversation_history =
          <<[role |-> "user", content |-> <<"a@b.com", "c@d.org">>],
            [role |-> "assistant", content |-> <<"c@d.org">>]>>
    /\ call.result.lead_data["email"] = "a@b.com"
    /\ call.result.lead_data["phone_number"] = None

\* The stored history of session s, the empty list for a session not seen.
HistoryOf(store, s) == IF s \in DOMAIN store THEN store[s] ELSE <<>>

\* C13: a session's history is append-only: a successful turn leaves the
\* prior history followed by the request's user turn and the reply's
\* assistant turn, any other step leaves it as it was, so the history of a
\* session is two entries per successful turn, alternating user, assistant.
C13_AppendOnly ==
    [][\A s \in SessionIds :
          LET old == HistoryOf(sessions, s)
              new == HistoryOf(sessions', s)
          IN  /\ IF now' = now + 1 /\ last'.session_id = s /\ last'.status = 200
                 THEN /\ Len(new) = Len(old) + 2
                      /\ SubSeq(new, 1, Len(old)) = old
                      /\ new[Len(old) + 1].role = "user"
                      /\ new[Len(old) + 1].content = last'.message
                      /\ new[Len(old) + 2].role = "assistant"
                      /\ new[Len(old) + 2].content = last'.reply
                 ELSE new = old
              /\ Len(new) % 2 = 0
              /\ \A i \in DOMAIN new :
                    new[i].role = (IF i % 2 = 1 THEN "user" ELSE "assistant")]_vars

C13_Witness ==
    /\ now = MaxTurns
    /\ last.status = 200
    /\ Len(sessions[last.session_id]) = 2 * MaxTurns
    /\ sessions[last.session_id][1].content # sessions[last.session_id][3].content

C15_SessionsIsolated ==
    [][now' = now + 1 =>
          \A s \in SessionIds \ {last'.session_id} :
              /\ (s \in DOMAIN sessions') <=> (s \in DOMAIN sessions)
              /\ HistoryOf(sessions', s) = HistoryOf(sessions, s)
              /\ RowsFor(s)' = RowsFor(s)
              /\ MailsFor(s)' = MailsFor(s)]_vars

C15_Witness ==
    /\ now = 2
    /\ last.session_id = "s2"
    /\ last.trace.save = "ok"
    /\ last.trace.lead_data["email"] = "a@b.com"
    /\ \E r \in RowsFor("s1") :
          /\ r.email = "a@b.com"
          /\ r.conversation_history = sessions["s1"]
    /\ RowsFor("s2") # {}
    /\ Len(sessions["s1"]) = 2

\* C16: after a qualifying turn whose upsert succeeds the session's stored
\* lead is that turn's values in full: every attribute column equals the
\* turn's extracted record (a stored non-null value gives way to a null one),
\* the score is the turn's score, the stored conversation is the session's
\* history with the turn's user and assistant turns, and the write reports
\* an insert exactly when the session had no row.
C16_StoredLeadIsLatest ==
    [][(now' = now + 1 /\ last'.trace.save = "ok") =>
          \E s \in SessionIds :
              /\ s = last'.session_id
              /\ Cardinality(RowsFor(s)') = 1
              /\ \A r \in RowsFor(s)' :
                    /\ \A k \in LeadFields : r[k] = last'.trace.lead_data[k]
                    /\ r.qualification_score = last'.trace.score
                    /\ r.conversation_history = sessions'[s]
                    /\ r.conversation_history
                          = HistoryOf(sessions, s)
                              \o SubSeq(sessions'[s], Len(sessions'[s]) - 1,
                                        Len(sessions'[s]))
                    /\ r = last'.trace.saved.row
              /\ last'.trace.inserted <=> (RowsFor(s) = {})
              /\ last'.trace.saved.inserted = last'.trace.inserted]_vars

\* The second save of a session stored null over "new".
C16_Witness ==
    \E s \in SessionIds :
        /\ audit[s].qualified = 2
        /\ audit[s].save_failed = 0
        /\ last.session_id = s
        /\ last.trace.save = "ok" /\ ~last.trace.inserted
        /\ \E r \in RowsFor(s) :
              /\ r.new_or_used = None
              /\ r.email = "x@y.com"
              /\ sessions[s][1].content = <<"c@d.org", "555-123-4567">>
              /\ Len(r.conversation_history) = 4

\* The similarity of a record of the corpus to the query of the call.
SimilarityTo(d) == 100 - Distance(d.embedding, call.embed.vector)

ContradictingMatch ==
    LET e == re_search(EmailTokens, last'.message)
        p == re_search(PhoneTokens, last'.message)
    IN  \/ /\ e # None
           /\ last.trace.lead_data["email"] # None
           /\ e # last.trace.lead_data["email"]
        \/ /\ p # None
           /\ last.trace.lead_data["phone_number"] # None
           /\ p # last.trace.lead_data["phone_number"]

\* C18: between a turn of a session that was answered and the session's
\* next turn, an attribute non-null in the first turn's extracted record is
\* null in the second's only if the second turn brings a deterministic match
\* that contradicts an earlier one.
C18_KnownStaysKnown ==
    [][(/\ now > 0
        /\ now' = now + 1
        /\ last.status = 200
        /\ last'.session_id = last.session_id)
       => \A k \in LeadFields :
              (last.trace.lead_data[k] # None /\ last'.trace.lead_data[k] = None)
                  => ContradictingMatch]_vars

\* C19: chat leaves the history its caller handed in as it was: after the
\* call the caller's list is the sequence it was before, and the two new
\* turns are in the returned history only.
C19_HistoryByValue ==
    (call.fn = "chat" /\ call.done) =>
        /\ call.result.arg_history = call.conversation_history
        /\ ~call.result.raised =>
              /\ Len(call.result.history) = Len(call.conversation_history) + 2
              /\ SubSeq(call.result.history, 1, Len(call.conversation_history))
                    = call.conversation_history

\* C20: a request whose reply completion fails is answered 500 and changes
\* nothing: every session's stored history is the sequence it was, the leads
\* table, its id sequence and the notifications are as they were, also when
\* the request's extracted record passes the qualification gate.
C20_FailedTurnChangesNothing ==
    [][(now' = now + 1 /\ last'.trace.completion = "error") =>
          /\ last'.status = 500
          /\ \A s \in SessionIds :
                HistoryOf(sessions', s) = HistoryOf(sessions, s)
          /\ leads' = leads
          /\ lead_id_seq' = lead_id_seq
          /\ outbox' = outbox]_vars

\* A failed request of a session with one exchange stored and no lead yet,
\* whose record would have qualified.
C20_Witness ==
    /\ last.status = 500
    /\ last.trace.completion = "error"
    /\ IsQualified(calculate_qualification_score(last.trace.lead_data),
                   last.trace.lead_data)
    /\ Len(sessions[last.session_id]) = 2
    /\ RowsFor(last.session_id) = {}
    /\ outbox = <<>>

=============================================================================
